---- MODULE Spec2Model ----
(***************************************************************************)
(* Model of Quantum++'s number theory functions (include/number_theory.h). *)
(*                                                                         *)
(* Every function of the header is pure and synchronous.  A state of the   *)
(* model is one call: the function called (fn), its arguments (args), the  *)
(* position of the call (pc), its outcome (out: a returned value or the    *)
(* exception that escaped), and the local variables of the functions that  *)
(* are modelled loop iteration by loop iteration (fac, ip, rp).            *)
(*                                                                         *)
(* bigint is modelled as an exact integer.  For the functions of namespace *)
(* internal the model also lists every intermediate value a call forms,    *)
(* which is what decides whether a bigint of a given width (BigintBits)    *)
(* overflows.                                                              *)
(***************************************************************************)
EXTENDS Integers, Sequences, FiniteSets, TLC

VARIABLES fn, args, pc, out, fac, ip, rp

vars == <<fn, args, pc, out, fac, ip, rp>>

(***************************************************************************)
(* Bounds of the model.                                                    *)
(***************************************************************************)
\* gcd, egcd, modinv: operands range over -MaxN .. MaxN
MaxN == 7
\* gcd(list): lists of at most MaxLen elements, each in -MaxElem .. MaxElem
MaxLen == 3
MaxElem == 3
\* modpow: base up to MaxBase, exponent up to MaxExp, modulus up to MaxMod
MaxBase == 5
MaxExp == 5
MaxMod == 6
\* factors: argument in -MaxFac .. MaxFac
MaxFac == 40
\* permutations: index sequences of length at most MaxPerm
MaxPerm == 3
\* width in bits of the fixed-width bigint the overflow analysis assumes
BigintBits == 6
\* isprime: besides the primes and composites named below, -MaxPrimeArg .. MaxPrimeArg
MaxPrimeArg == 12
\* randprime: interval ends in -MaxRand .. MaxRand, at most MaxTries candidates
MaxRand == 5
MaxTries == 2

\* the default number of rounds of isprime, idx k = 80
DefaultK == 80

(***************************************************************************)
(* Outcomes of a call, and the arithmetic of the built-in integer type.    *)
(***************************************************************************)
None == [kind |-> "none", val |-> 0]

Ok(v) == [kind |-> "ok", val |-> v]

\* throw Exception(where, type): only the type is kept
Throw(type) == [kind |-> type, val |-> 0]

Abs(x) == IF x < 0 THEN -x ELSE x

\* C++ integer division truncates toward zero
Quot(a, b) ==
    IF a >= 0 /\ b > 0 THEN a \div b
    ELSE IF (a >= 0) = (b > 0) THEN Abs(a) \div Abs(b)
    ELSE -(Abs(a) \div Abs(b))

\* C++ remainder: a == (a / b) * b + a % b, the sign follows the dividend
Rem(a, b) == IF a >= 0 /\ b > 0 THEN a % b ELSE a - Quot(a, b) * b

(***************************************************************************)
(* gcd(bigint, bigint)                                                     *)
(***************************************************************************)
RECURSIVE gcd_loop(_, _, _)
gcd_loop(m, n, result) ==
    IF n = 0 THEN result ELSE gcd_loop(n, Rem(m, n), n)

gcd_sign_mut(result) == result

\* return (result > 0) ? result : -result;
gcd_sign(result) == IF result > 0 THEN result ELSE -result

gcd(m, n) ==
    IF m = 0 /\ n = 0 THEN Throw("OUT_OF_RANGE")
    ELSE IF m = 0 \/ n = 0 THEN Ok(IF Abs(m) >= Abs(n) THEN Abs(m) ELSE Abs(n))
    ELSE Ok(gcd_sign(gcd_loop(m, n, 1)))

(***************************************************************************)
(* gcd(const std::vector<bigint>&)                                         *)
(***************************************************************************)
RECURSIVE gcd_fold(_, _, _)
gcd_fold(ns, i, result) ==
    IF i > Len(ns) THEN Ok(IF result > 0 THEN result ELSE -result)
    ELSE LET g == gcd(result, ns[i])
         IN  IF g.kind # "ok" THEN g ELSE gcd_fold(ns, i + 1, g.val)

gcd_list(ns) ==
    IF Len(ns) = 0 THEN Throw("ZERO_SIZE") ELSE gcd_fold(ns, 2, ns[1])

(***************************************************************************)
(* egcd                                                                    *)
(***************************************************************************)
RECURSIVE egcd_loop(_, _, _, _, _, _)
egcd_loop(m, n, a1, a2, b1, b2) ==
    IF n = 0 THEN <<a2, b2, m>>
    ELSE LET q == Quot(m, n)
             r == m - q * n
             a == a2 - q * a1
             b == b2 - q * b1
         IN  egcd_loop(n, r, a, a1, b, b1)

egcd_signs_mut(t) == IF t[3] < 0 THEN <<t[1], t[2], -t[3]>> ELSE t

\* correct the signs
egcd_signs(t) == IF t[3] < 0 THEN <<-t[1], -t[2], -t[3]>> ELSE t

egcd(m, n) ==
    IF m = 0 /\ n = 0 THEN Throw("OUT_OF_RANGE")
    ELSE Ok(egcd_signs(egcd_loop(m, n, 0, 1, 1, 0)))

(***************************************************************************)
(* modinv                                                                  *)
(***************************************************************************)
modinv_shift_mut(y, p) == y

\* return (y > 0) ? y : y + p;
modinv_shift(y, p) == IF y > 0 THEN y ELSE y + p

modinv(a, p) ==
    IF a <= 0 \/ p <= 0 THEN Throw("OUT_OF_RANGE")
    ELSE LET t == egcd(p, a)
         IN  IF t.kind # "ok" THEN t
             ELSE IF t.val[3] # 1 THEN Throw("OUT_OF_RANGE")
             ELSE Ok(modinv_shift(t.val[2], p))

(***************************************************************************)
(* internal::mulmod, internal::mulmod1                                     *)
(* x_values lists every value a call of x forms on its way.                *)
(***************************************************************************)
\* one iteration of the loop of mulmod over its locals s = (a, b, r)
mulmod_step(s, m) ==
    LET b1 == s.b \div 2                                 \* b >>= 1
    IN  [r |-> IF s.b % 2 = 1                            \* b & 1
               THEN (IF m - s.r > s.a THEN s.r + s.a ELSE s.r + s.a - m)
               ELSE s.r,
         b |-> b1,
         a |-> IF b1 # 0
               THEN (IF m - s.a > s.a THEN s.a + s.a ELSE s.a + s.a - m)
               ELSE s.a]

\* the values that iteration forms, in evaluation order
mulmod_formed(s, m) ==
    LET s1 == mulmod_step(s, m)
    IN  (IF s.b % 2 = 1 THEN {m - s.r, s.r + s.a, s1.r} ELSE {})
        \cup {s1.b}
        \cup (IF s1.b # 0 THEN {m - s.a, s.a + s.a, s1.a} ELSE {})

RECURSIVE mulmod_loop(_, _)
mulmod_loop(s, m) ==
    IF s.b <= 0 THEN s.r ELSE mulmod_loop(mulmod_step(s, m), m)

RECURSIVE mulmod_loop_formed(_, _)
mulmod_loop_formed(s, m) ==
    IF s.b <= 0 THEN {}
    ELSE mulmod_formed(s, m) \cup mulmod_loop_formed(mulmod_step(s, m), m)

mulmod(a, b, m) ==
    mulmod_loop([a |-> Rem(a, m), b |-> Rem(b, m), r |-> 0], m)

\* every value a call of mulmod forms
mulmod_values(a, b, m) ==
    {Rem(a, m), Rem(b, m)}
        \cup mulmod_loop_formed([a |-> Rem(a, m), b |-> Rem(b, m), r |-> 0], m)

\* one iteration of the loop of mulmod1 over its locals s = (a, b, res)
mulmod1_step(s, mod) ==
    [res |-> IF Rem(s.b, 2) = 1 THEN Rem(s.res + s.a, mod) ELSE s.res,
     a |-> Rem(s.a * 2, mod),
     b |-> Quot(s.b, 2)]

\* the values that iteration forms
mulmod1_formed(s, mod) ==
    LET s1 == mulmod1_step(s, mod)
    IN  (IF Rem(s.b, 2) = 1 THEN {s.res + s.a, s1.res} ELSE {})
        \cup {s.a * 2, s1.a, s1.b}

RECURSIVE mulmod1_loop(_, _)
mulmod1_loop(s, mod) ==
    IF s.b <= 0 THEN Rem(s.res, mod)
    ELSE mulmod1_loop(mulmod1_step(s, mod), mod)

RECURSIVE mulmod1_loop_formed(_, _)
mulmod1_loop_formed(s, mod) ==
    IF s.b <= 0 THEN {Rem(s.res, mod)}
    ELSE mulmod1_formed(s, mod) \cup mulmod1_loop_formed(mulmod1_step(s, mod), mod)

mulmod1(a, b, mod) ==
    mulmod1_loop([a |-> Rem(a, mod), b |-> b, res |-> 0], mod)

\* every value a call of mulmod1 forms
mulmod1_values(a, b, mod) ==
    {Rem(a, mod)}
        \cup mulmod1_loop_formed([a |-> Rem(a, mod), b |-> b, res |-> 0], mod)

(***************************************************************************)
(* modpow                                                                  *)
(***************************************************************************)
\* one iteration of the loop of modpow over its locals s = (a, n, result)
modpow_step(s, p) ==
    [result |-> IF Rem(s.n, 2) # 0
                THEN Rem(mulmod1(s.result, s.a, p), p)       \* MULTIPLY
                ELSE s.result,
     a |-> Rem(mulmod1(s.a, s.a, p), p),                     \* SQUARE
     n |-> Quot(s.n, 2)]

RECURSIVE modpow_loop(_, _)
modpow_loop(s, p) ==
    IF s.n <= 0 THEN s.result ELSE modpow_loop(modpow_step(s, p), p)

modpow_unit_mut(n, p) == FALSE

\* if (n == 0 && p == 1) return 0;
modpow_unit(n, p) == n = 0 /\ p = 1

modpow(a, n, p) ==
    IF a < 0 \/ n < 0 \/ p < 1 THEN Throw("OUT_OF_RANGE")
    ELSE IF a = 0 /\ n = 0 THEN Throw("OUT_OF_RANGE")
    ELSE IF a = 0 /\ n > 0 THEN Ok(0)
    ELSE IF modpow_unit(n, p) THEN Ok(0)
    ELSE Ok(modpow_loop([a |-> a, n |-> n, result |-> 1], p))

(***************************************************************************)
(* Permutations: index sequences p[1] .. p[N] with values in 0 .. N-1      *)
(* (element i of the std::vector is p[i + 1]).                             *)
(***************************************************************************)
\* internal::_check_perm: a bijection on {0, ..., size-1}
check_perm(perm) ==
    /\ \A i \in 1..Len(perm) : perm[i] \in 0..(Len(perm) - 1)
    /\ \A i, j \in 1..Len(perm) : perm[i] = perm[j] => i = j

invperm_put_mut(result, perm, i) == [result EXCEPT ![i + 1] = perm[i + 1]]

\* result[perm[i]] = i;
invperm_put(result, perm, i) == [result EXCEPT ![perm[i + 1] + 1] = i]

RECURSIVE invperm_loop(_, _, _)
invperm_loop(perm, i, result) ==
    IF i >= Len(perm) THEN result
    ELSE invperm_loop(perm, i + 1, invperm_put(result, perm, i))

invperm(perm) ==
    IF ~check_perm(perm) THEN Throw("PERM_INVALID")
    ELSE Ok(invperm_loop(perm, 0, [k \in 1..Len(perm) |-> 0]))

RECURSIVE compperm_loop(_, _, _, _)
compperm_loop(perm, sigma, i, result) ==
    IF i >= Len(perm) THEN result
    ELSE compperm_loop(perm, sigma, i + 1,
                       [result EXCEPT ![i + 1] = perm[sigma[i + 1] + 1]])

compperm(perm, sigma) ==
    IF ~check_perm(perm) THEN Throw("PERM_INVALID")
    ELSE IF ~check_perm(sigma) THEN Throw("PERM_INVALID")
    ELSE IF Len(perm) # Len(sigma) THEN Throw("PERM_INVALID")
    ELSE Ok(compperm_loop(perm, sigma, 0, [k \in 1..Len(perm) |-> 0]))

(***************************************************************************)
(* The calls of the pure functions: one action applies the whole function. *)
(***************************************************************************)
NoFac == [n |-> 0, d |-> 0, result |-> <<>>]

NoIp ==
    [n |-> 0, k |-> 0, u |-> 0, r |-> 0, i |-> 0, caller |-> "none",
     fermat_no |-> {}, round_no |-> {}]

NoRp == [i |-> 0, candidate |-> 0]

\* the call returns v or lets an exception escape: nothing runs after it
Finish(o) ==
    /\ out' = o
    /\ pc' = "done"
    /\ UNCHANGED <<fn, args, fac, ip, rp>>

call_gcd == pc = "call" /\ fn = "gcd" /\ Finish(gcd(args[1], args[2]))

call_gcd_list == pc = "call" /\ fn = "gcd_list" /\ Finish(gcd_list(args[1]))

call_egcd == pc = "call" /\ fn = "egcd" /\ Finish(egcd(args[1], args[2]))

call_modinv == pc = "call" /\ fn = "modinv" /\ Finish(modinv(args[1], args[2]))

call_modpow ==
    pc = "call" /\ fn = "modpow" /\ Finish(modpow(args[1], args[2], args[3]))

call_mulmod ==
    pc = "call" /\ fn = "mulmod" /\ Finish(Ok(mulmod(args[1], args[2], args[3])))

call_mulmod1 ==
    pc = "call" /\ fn = "mulmod1" /\ Finish(Ok(mulmod1(args[1], args[2], args[3])))

call_invperm == pc = "call" /\ fn = "invperm" /\ Finish(invperm(args[1]))

call_compperm ==
    pc = "call" /\ fn = "compperm" /\ Finish(compperm(args[1], args[2]))

(***************************************************************************)
(* factors, one action per loop step.                                      *)
(***************************************************************************)
factors_enter ==
    /\ pc = "call" /\ fn = "factors"
    /\ LET n == IF args[1] < 0 THEN -args[1] ELSE args[1]
       IN  IF n = 0 \/ n = 1
           THEN Finish(Throw("OUT_OF_RANGE"))
           ELSE /\ fac' = [n |-> n, d |-> 2, result |-> <<>>]
                /\ pc' = "factors_outer"
                /\ UNCHANGED <<fn, args, out, ip, rp>>

\* while (n > 1)
factors_outer ==
    /\ pc = "factors_outer"
    /\ IF fac.n > 1
       THEN pc' = "factors_inner" /\ UNCHANGED <<fn, args, out, fac, ip, rp>>
       ELSE Finish(Ok(fac.result))

\* while (n % d == 0) { result.push_back(d); n /= d; }
factors_divide ==
    /\ pc = "factors_inner"
    /\ Rem(fac.n, fac.d) = 0
    /\ fac' = [fac EXCEPT !.result = Append(@, fac.d), !.n = Quot(@, fac.d)]
    /\ UNCHANGED <<fn, args, pc, out, ip, rp>>

factors_bound_mut(d, n) == d * d >= n

\* if (d * d > n)
factors_bound(d, n) == d * d > n

\* ++d; if (d * d > n) { if (n > 1) result.push_back(n); break; }
factors_advance ==
    /\ pc = "factors_inner"
    /\ Rem(fac.n, fac.d) # 0
    /\ LET d == fac.d + 1
       IN  IF factors_bound(d, fac.n)
           THEN Finish(Ok(IF fac.n > 1 THEN Append(fac.result, fac.n)
                          ELSE fac.result))
           ELSE /\ fac' = [fac EXCEPT !.d = d]
                /\ pc' = "factors_outer"
                /\ UNCHANGED <<fn, args, out, ip, rp>>

(***************************************************************************)
(* The random source, rand(a, b): a uniform integer of [a, b].  The header *)
(* only calls it.  With a > b no integer can be drawn: the call throws,    *)
(* or returns a value nothing is known about.                              *)
(***************************************************************************)
rand(a, b) ==
    IF a <= b THEN {Ok(v) : v \in a..b}
    ELSE {Throw("OUT_OF_RANGE")} \cup {Ok(v) : v \in b..a}

(***************************************************************************)
(* isprime, one action per random draw.                                    *)
(***************************************************************************)
\* z = ((z % n) * (z % n)) % n
square_step(z, n) == Rem(Rem(z, n) * Rem(z, n), n)

\* the values that statement forms
square_step_values(z, n) == {Rem(z, n), Rem(z, n) * Rem(z, n), square_step(z, n)}

\* for (bigint i = n - 1; i % 2 == 0; ++u, i /= 2);
RECURSIVE isprime_u(_, _)
isprime_u(i, u) == IF Rem(i, 2) = 0 THEN isprime_u(Quot(i, 2), u + 1) ELSE u

isprime_r(n, u) == Quot(n - 1, 2 ^ u)

\* the Fermat test of witness x
fermat_passes(n, x) == modpow(x, n - 1, n).val = 1

\* the inner loop of one round: TRUE when it leaves by jump
RECURSIVE isprime_squarings(_, _, _, _)
isprime_squarings(z, n, j, u) ==
    IF j >= u THEN FALSE
    ELSE LET z1 == square_step(z, n)
         IN  IF z1 = 1 THEN FALSE
             ELSE IF z1 = n - 1 THEN TRUE
             ELSE isprime_squarings(z1, n, j + 1, u)

round_passes_mut(n, a, u, r) ==
    LET z == modpow(a, r, n).val
    IN  IF z = 1 THEN TRUE ELSE isprime_squarings(z, n, 0, u)

\* one round with witness a: TRUE when the loop continues, FALSE when
\* isprime returns false
round_passes(n, a, u, r) ==
    LET z == modpow(a, r, n).val
    IN  IF z = 1 \/ z = n - 1 THEN TRUE ELSE isprime_squarings(z, n, 0, u)

\* isprime returns v to its caller: to the top of the call, or to line 597
\* of randprime, which returns the candidate or goes on with ++i
isprime_return(v) ==
    IF ip.caller = "randprime" /\ ~v
    THEN /\ rp' = [rp EXCEPT !.i = @ + 1]
         /\ pc' = "randprime_loop"
         /\ UNCHANGED <<fn, args, out, fac, ip>>
    ELSE Finish(Ok(IF ip.caller = "randprime" THEN rp.candidate ELSE v))

call_isprime ==
    /\ pc = "call" /\ fn = "isprime"
    /\ ip' = [NoIp EXCEPT !.n = args[1], !.k = args[2], !.caller = "top"]
    /\ pc' = "isprime_enter"
    /\ UNCHANGED <<fn, args, out, fac, rp>>

\* isprime draws up to k + 1 witnesses for the same n.  Which witnesses make
\* it return false depends on n alone: the frame keeps the two sets
\* (fermat_no, round_no), computed when n, and then u and r, are known.
isprime_enter ==
    /\ pc = "isprime_enter"
    /\ LET n == IF ip.n < 0 THEN -ip.n ELSE ip.n
       IN  IF n < 2 THEN Finish(Throw("OUT_OF_RANGE"))
           ELSE IF n = 2 \/ n = 3 THEN isprime_return(TRUE)
           ELSE /\ ip' = [ip EXCEPT !.n = n,
                             !.fermat_no = {x \in 2..(n - 1) : ~fermat_passes(n, x)}]
                /\ pc' = "isprime_fermat"
                /\ UNCHANGED <<fn, args, out, fac, rp>>

\* bigint x = rand(2, n - 1); if (modpow(x, n - 1, n) != 1) return false;
isprime_fermat ==
    /\ pc = "isprime_fermat"
    /\ \E x \in rand(2, ip.n - 1) :
          IF x.kind # "ok" THEN Finish(x)
          ELSE IF x.val \in ip.fermat_no THEN isprime_return(FALSE)
          ELSE /\ pc' = "isprime_ur"
               /\ UNCHANGED <<fn, args, out, fac, ip, rp>>

\* compute u and r
isprime_ur ==
    /\ pc = "isprime_ur"
    /\ LET u == isprime_u(ip.n - 1, 0)
           r == isprime_r(ip.n, u)
       IN  ip' = [ip EXCEPT !.u = u, !.r = r, !.i = 0,
                     !.round_no = {a \in 2..(ip.n - 2) : ~round_passes(ip.n, a, u, r)}]
    /\ pc' = "isprime_round"
    /\ UNCHANGED <<fn, args, out, fac, rp>>

\* for (idx i = 0; i < k; ++i) { bigint a = rand(2, n - 2); ... }
isprime_round ==
    /\ pc = "isprime_round"
    /\ IF ip.i >= ip.k THEN isprime_return(TRUE)
       ELSE \E a \in rand(2, ip.n - 2) :
               IF a.kind # "ok" THEN Finish(a)
               ELSE IF a.val \in ip.round_no THEN isprime_return(FALSE)
               ELSE /\ ip' = [ip EXCEPT !.i = @ + 1]
                    /\ UNCHANGED <<fn, args, pc, out, fac, rp>>

(***************************************************************************)
(* randprime, one action per random draw.  args = <<a, b, N>>.             *)
(***************************************************************************)
randprime_enter ==
    /\ pc = "call" /\ fn = "randprime"
    /\ IF args[1] > args[2] THEN Finish(Throw("OUT_OF_RANGE"))
       ELSE /\ rp' = [i |-> 0, candidate |-> 0]
            /\ pc' = "randprime_loop"
            /\ UNCHANGED <<fn, args, out, fac, ip>>

\* select a candidate
randprime_draw ==
    /\ pc = "randprime_loop"
    /\ IF rp.i >= args[3] THEN Finish(Throw("Prime not found!"))
       ELSE \E c \in rand(args[1], args[2]) :
               IF c.kind # "ok" THEN Finish(c)
               ELSE IF Abs(c.val) < 2
               THEN /\ rp' = [i |-> rp.i + 1, candidate |-> c.val]
                    /\ UNCHANGED <<fn, args, pc, out, fac, ip>>
               ELSE IF Abs(c.val) = 2
               THEN /\ rp' = [rp EXCEPT !.candidate = c.val]
                    /\ out' = Ok(c.val)
                    /\ pc' = "done"
                    /\ UNCHANGED <<fn, args, fac, ip>>
               ELSE /\ rp' = [rp EXCEPT !.candidate = c.val]
                    /\ pc' = "randprime_fermat"
                    /\ UNCHANGED <<fn, args, out, fac, ip>>

\* perform a Fermat test; if passed, perform a Miller-Rabin test
randprime_fermat ==
    /\ pc = "randprime_fermat"
    /\ \E x \in rand(2, rp.candidate - 1) :
          IF x.kind # "ok" THEN Finish(x)
          ELSE LET t == modpow(x.val, rp.candidate - 1, rp.candidate)
               IN  IF t.kind # "ok" THEN Finish(t)
                   ELSE IF t.val # 1
                   THEN /\ rp' = [rp EXCEPT !.i = @ + 1]
                        /\ pc' = "randprime_loop"
                        /\ UNCHANGED <<fn, args, out, fac, ip>>
                   ELSE /\ ip' = [NoIp EXCEPT !.n = rp.candidate, !.k = DefaultK,
                                              !.caller = "randprime"]
                        /\ pc' = "isprime_enter"
                        /\ UNCHANGED <<fn, args, out, fac, rp>>

(***************************************************************************)
(* The statement z = ((z % n) * (z % n)) % n of isprime on its own.        *)
(***************************************************************************)
call_square_step ==
    pc = "call" /\ fn = "square_step" /\ Finish(Ok(square_step(args[1], args[2])))

(***************************************************************************)
(* Arguments of the calls.                                                 *)
(***************************************************************************)
\* the greatest bigint of BigintBits bits, and the least
MaxBig == 2 ^ (BigintBits - 1) - 1

MinBig == -(2 ^ (BigintBits - 1))

\* sequences over S of length at most n
SeqsUpTo(S, n) == UNION {[1..k -> S] : k \in 0..n}

Start ==
    /\ pc = "call" /\ out = None
    /\ fac = NoFac /\ ip = NoIp /\ rp = NoRp

InitEuclid ==
    /\ Start
    /\ \/ fn \in {"gcd", "egcd"} /\ args \in (-MaxN..MaxN) \X (-MaxN..MaxN)
       \/ fn = "modinv" /\ args \in (-1..2 * MaxN) \X (-1..MaxN)
       \/ fn = "gcd_list" /\ args \in {<<ns>> : ns \in SeqsUpTo(-MaxElem..MaxElem, MaxLen)}

NextEuclid == call_gcd \/ call_egcd \/ call_modinv \/ call_gcd_list

SpecEuclid == InitEuclid /\ [][NextEuclid]_vars

InitKernel ==
    /\ Start
    /\ \/ fn = "modpow" /\ args \in (-1..MaxBase) \X (-1..MaxExp) \X (-1..MaxMod)
       \/ /\ fn \in {"mulmod", "mulmod1"}
          /\ args \in {t \in (0..MaxBig) \X (0..MaxBig) \X (1..MaxBig) :
                          t[1] < t[3] /\ t[2] < t[3]}
       \/ /\ fn = "square_step"
          /\ args \in {t \in (0..MaxBig) \X (1..MaxBig) : t[1] < t[2]}

NextKernel == call_modpow \/ call_mulmod \/ call_mulmod1 \/ call_square_step

SpecKernel == InitKernel /\ [][NextKernel]_vars

InitFactors == Start /\ fn = "factors" /\ args \in {<<n>> : n \in -MaxFac..MaxFac}

NextFactors == factors_enter \/ factors_outer \/ factors_divide \/ factors_advance

\* factors is sequential code: a call that can take a step takes it
SpecFactors == InitFactors /\ [][NextFactors]_vars /\ WF_vars(NextFactors)

\* the arguments isprime is called on: the numbers of its tests
KnownPrimes == {2, 3, 5, 7, 97, 7919}

KnownComposites == {4, 9, 100, 7920}

InitPrime ==
    /\ Start
    /\ \/ fn = "isprime" /\ args \in (KnownPrimes \cup KnownComposites) \X {DefaultK}
       \/ fn = "isprime" /\ args \in (-MaxPrimeArg..MaxPrimeArg) \X {0, 1, DefaultK}
       \/ /\ fn = "randprime"
          /\ args \in (-MaxRand..MaxRand) \X (-MaxRand..MaxRand) \X (0..MaxTries)

NextPrime ==
    \/ call_isprime \/ isprime_enter \/ isprime_fermat \/ isprime_ur \/ isprime_round
    \/ randprime_enter \/ randprime_draw \/ randprime_fermat

SpecPrime == InitPrime /\ [][NextPrime]_vars

InitPerm ==
    /\ Start
    /\ \/ fn = "invperm" /\ args \in {<<p>> : p \in SeqsUpTo(0..(MaxPerm - 1), MaxPerm)}
       \/ /\ fn = "compperm"
          /\ args \in SeqsUpTo(0..(MaxPerm - 1), MaxPerm)
                         \X SeqsUpTo(0..(MaxPerm - 1), MaxPerm)

NextPerm == call_invperm \/ call_compperm

SpecPerm == InitPerm /\ [][NextPerm]_vars

Init == InitEuclid \/ InitKernel \/ InitFactors \/ InitPrime \/ InitPerm

Next == NextEuclid \/ NextKernel \/ NextFactors \/ NextPrime \/ NextPerm

Spec == Init /\ [][Next]_vars

(***************************************************************************)
(* Properties.                                                             *)
(***************************************************************************)
Divides(d, x) == x % d = 0

SetMax(S) == CHOOSE x \in S : \A y \in S : x >= y

\* the greatest common divisor of the integers of S, not all zero
GCD(S) ==
    SetMax({d \in 1..SetMax({Abs(x) : x \in S}) : \A x \in S : Divides(d, x)})

IsPrime(x) == x > 1 /\ \A d \in 2..(x - 1) : ~Divides(d, x)

RECURSIVE Product(_)
Product(seq) == IF seq = <<>> THEN 1 ELSE Head(seq) * Product(Tail(seq))

Identity(N) == [k \in 1..N |-> k - 1]

\* C1: for m, n not both zero, egcd(m, n) returns (a, b, c) with
\* a*m + b*n = c, c >= 0, and c the value gcd(m, n) returns
C1_egcd_bezout ==
    (pc = "done" /\ fn = "egcd" /\ ~(args[1] = 0 /\ args[2] = 0)) =>
        /\ out.kind = "ok"
        /\ out.val[1] * args[1] + out.val[2] * args[2] = out.val[3]
        /\ out.val[3] >= 0
        /\ out.val[3] = gcd(args[1], args[2]).val
        /\ out.val[3] = GCD({args[1], args[2]})

\* egcd(-6, 4): the loop ends with c = -2 and the signs are corrected
C1_witness ==
    pc = "done" /\ fn = "egcd" /\ args = <<-6, 4>> /\ out.kind = "ok" /\ out.val[3] = 2

\* C2: for m, n not both zero, gcd(m, n) is >= 0, divides m and n, no larger
\* integer divides both, and it is the absolute value of the other argument
\* when one argument is zero
C2_gcd_greatest ==
    (pc = "done" /\ fn = "gcd" /\ ~(args[1] = 0 /\ args[2] = 0)) =>
        /\ out.kind = "ok"
        /\ out.val > 0
        /\ Divides(out.val, args[1]) /\ Divides(out.val, args[2])
        /\ \A d \in (out.val + 1)..(Abs(args[1]) + Abs(args[2])) :
              ~(Divides(d, args[1]) /\ Divides(d, args[2]))
        /\ args[1] = 0 => out.val = Abs(args[2])
        /\ args[2] = 0 => out.val = Abs(args[1])

\* gcd(-6, 4): the last remainder is -2
C2_witness == pc = "done" /\ fn = "gcd" /\ args = <<-6, 4>> /\ out = Ok(2)

Coprime(a, p) == GCD({a, p}) = 1

\* C3 as stated: for a > 0, p > 0 coprime, p = 1 and a > p included,
\* modinv(a, p) returns r with (a * r) mod p = 1
C3_modinv_as_stated ==
    (pc = "done" /\ fn = "modinv" /\ args[1] > 0 /\ args[2] > 0
        /\ Coprime(args[1], args[2])) =>
        out.kind = "ok" /\ Rem(args[1] * out.val, args[2]) = 1

\* C3 amended: for a > 0, p > 1 coprime, a > p included, modinv(a, p) returns
\* r with (a * r) mod p = 1; modinv(a, 1) returns 1, and (a * 1) mod 1 = 0
C3_modinv_inverse ==
    (pc = "done" /\ fn = "modinv" /\ args[1] > 0 /\ args[2] > 0
        /\ Coprime(args[1], args[2])) =>
        /\ out.kind = "ok"
        /\ args[2] > 1 => Rem(args[1] * out.val, args[2]) = 1
        /\ args[2] = 1 => out.val = 1 /\ Rem(args[1] * out.val, args[2]) = 0

\* modinv(10, 7): a > p, and the coefficient -2 is shifted to 5
C3_witness == pc = "done" /\ fn = "modinv" /\ args = <<10, 7>> /\ out = Ok(5)

\* C4: for a >= 0, n >= 0, p >= 1, not a = n = 0, modpow(a, n, p) returns
\* a^n mod p, in [0, p): 0 when a = 0, 0 when p = 1, 1 when n = 0 and p > 1;
\* for any other arguments it throws the out-of-range exception
C4_modpow_power ==
    (pc = "done" /\ fn = "modpow") =>
        LET a == args[1]
            n == args[2]
            p == args[3]
        IN  IF a < 0 \/ n < 0 \/ p < 1 \/ (a = 0 /\ n = 0)
            THEN out.kind = "OUT_OF_RANGE"
            ELSE /\ out.kind = "ok"
                 /\ out.val = (a ^ n) % p
                 /\ out.val \in 0..(p - 1)
                 /\ a = 0 => out.val = 0
                 /\ p = 1 => out.val = 0
                 /\ (n = 0 /\ p > 1) => out.val = 1

\* modpow(5, 5, 6) = 3125 mod 6
C4_witness == pc = "done" /\ fn = "modpow" /\ args = <<5, 5, 6>> /\ out = Ok(5)

IsSorted(seq) == \A i \in 1..(Len(seq) - 1) : seq[i] <= seq[i + 1]

C5_result ==
    (pc = "done" /\ fn = "factors") =>
        IF Abs(args[1]) <= 1 THEN out.kind = "OUT_OF_RANGE"
        ELSE /\ out.kind = "ok"
             /\ IsSorted(out.val)
             /\ \A i \in 1..Len(out.val) : IsPrime(out.val[i])
             /\ Product(out.val) = Abs(args[1])

\* C5: factors(n) terminates; for |n| > 1 it returns a non-decreasing
\* sequence of primes whose product is |n|, and for n in {0, 1, -1} it throws
\* the out-of-range exception
C5_factors_terminates == <>(pc = "done") /\ []C5_result

\* factors(-12) = [2, 2, 3]
C5_witness == pc = "done" /\ fn = "factors" /\ args = <<-12>> /\ out = Ok(<<2, 2, 3>>)

\* C6: with k = 80, whatever the witnesses drawn, isprime returns true for
\* 2, 3, 5, 7, 97, 7919 and false for 4, 9, 100, 7920
C6_isprime_known ==
    (pc = "done" /\ fn = "isprime" /\ args[2] = DefaultK) =>
        /\ args[1] \in KnownPrimes => out = Ok(TRUE)
        /\ args[1] \in KnownComposites => out = Ok(FALSE)

\* isprime(7919) after its 80 rounds
C6_witness ==
    /\ pc = "done" /\ fn = "isprime" /\ args = <<7919, DefaultK>>
    /\ ip.i = DefaultK /\ out = Ok(TRUE)

\* C7: for a <= b, randprime(a, b, N) draws at most N candidates and either
\* returns a drawn candidate of [a, b] that has |c| = 2 or passed the Fermat
\* test and isprime, or throws "not found" after exactly N candidates; no
\* other exception escapes, and a candidate with |c| < 2 is never tested
C7_randprime_outcomes ==
    (fn = "randprime" /\ args[1] <= args[2]) =>
        /\ rp.i <= args[3]
        /\ pc \in {"randprime_fermat", "isprime_enter", "isprime_fermat",
                   "isprime_ur", "isprime_round"} => Abs(rp.candidate) > 2
        /\ pc = "done" =>
              /\ out.kind \in {"ok", "Prime not found!"}
              /\ out.kind = "Prime not found!" => rp.i = args[3]
              /\ out.kind = "ok" =>
                    /\ rp.i < args[3]
                    /\ out.val = rp.candidate
                    /\ out.val \in args[1]..args[2]
                    /\ \/ Abs(out.val) = 2
                       \/ ip.caller = "randprime" /\ ip.n = out.val

\* C8: for a non-empty list with a non-zero element, gcd(ns) returns the
\* greatest common divisor of its elements, whatever their order; it throws
\* only on the empty list
C8_gcd_list_any_order ==
    (pc = "done" /\ fn = "gcd_list") =>
        LET ns == args[1]
        IN  /\ Len(ns) = 0 => out.kind = "ZERO_SIZE"
            /\ (\E i \in 1..Len(ns) : ns[i] # 0) =>
                  out = Ok(GCD({ns[i] : i \in 1..Len(ns)}))

\* C9: for a valid permutation p, invperm(p) is a valid permutation and
\* compperm(p, invperm(p)) and compperm(invperm(p), p) are the identity;
\* compperm(perm, sigma)[i] = perm[sigma[i]]
C9_invperm_inverse ==
    /\ (pc = "done" /\ fn = "invperm" /\ check_perm(args[1])) =>
          /\ out.kind = "ok"
          /\ check_perm(out.val)
          /\ compperm(args[1], out.val) = Ok(Identity(Len(args[1])))
          /\ compperm(out.val, args[1]) = Ok(Identity(Len(args[1])))
    /\ (pc = "done" /\ fn = "compperm" /\ check_perm(args[1])
          /\ check_perm(args[2]) /\ Len(args[1]) = Len(args[2])) =>
          /\ out.kind = "ok"
          /\ Len(out.val) = Len(args[1])
          /\ \A i \in 0..(Len(args[1]) - 1) :
                out.val[i + 1] = args[1][args[2][i + 1] + 1]

\* invperm([2, 0, 1]) = [1, 2, 0]
C9_witness ==
    pc = "done" /\ fn = "invperm" /\ args = <<(<<2, 0, 1>>)>> /\ out = Ok(<<1, 2, 0>>)

InBigint(S) == \A v \in S : MinBig <= v /\ v <= MaxBig

\* C10: with a bigint of w bits, a modulus 0 < m <= 2^(w-1) - 1 and operands
\* 0 <= a, b < m, no value formed by mulmod, by mulmod1 or by the squaring
\* statement of isprime falls outside [-2^(w-1), 2^(w-1) - 1]
C10_no_overflow ==
    /\ (pc = "done" /\ fn = "mulmod") =>
          InBigint(mulmod_values(args[1], args[2], args[3]))
    /\ (pc = "done" /\ fn = "mulmod1") =>
          InBigint(mulmod1_values(args[1], args[2], args[3]))
    /\ (pc = "done" /\ fn = "square_step") =>
          InBigint(square_step_values(args[1], args[2]))

====
